---- MODULE Spec2Model ----
(***************************************************************************)
(* Model of the FastAPI catalog service: the routers of users.py and       *)
(* items.py and the login handler of main.py, over a store of Users and    *)
(* Items.  app.crud, app.auth and app.models are not part of the source    *)
(* tree; their operators below (crud_*, get_current_user, hash, verify,    *)
(* create_access_token) follow the design document.                        *)
(*                                                                         *)
(* A handler is an operator from the request's inputs and the current     *)
(* tables to its response and the tables it leaves (Reply); each request   *)
(* is one action that applies its handler's result.  resp keeps the        *)
(* operation, status and detail of the last response.                      *)
(* A row keeps the columns a handler or a constraint reads: full_name,     *)
(* is_active, created_at / updated_at (users) and description, price,      *)
(* created_at / updated_at (items) are carried along by the code without   *)
(* ever being tested, and are left out.                                    *)
(***************************************************************************)
EXTENDS Integers, Sequences, FiniteSets, TLC

\* ---------------------------------------------------------------- bounds
MaxUserId == 2
MaxItemId == 1
MaxTime == 1
MaxTokens == 1
MaxPage == 1
MaxSessions == 2
MaxCatalogItems == 3
MaxCatalogPage == 4

\* Token lifetime in clock ticks (ACCESS_TOKEN_EXPIRE_MINUTES of app.auth).
ACCESS_TOKEN_EXPIRE_MINUTES == 1

Emails == {"e1", "e2"}
Usernames == {"u1", "u2"}
Passwords == {"p1", "p2"}
Titles == {"t1", "t2"}

UserIds == 1..MaxUserId
ItemIds == 1..MaxItemId

\* Python's None for an optional string field / an unset field of a body.
None == "None"
\* A lookup that found no row.
NoRow == [none |-> TRUE]

VARIABLES
    users,      \* the users table: a set of User rows
    items,      \* the items table: a set of Item rows
    issued,     \* the bearer tokens clients hold (each with the id of the user login issued it to)
    now,        \* the clock
    resp,       \* the last request (operation, token state, path id) and its response's status and detail
    inflight,   \* per worker, a POST /users/ that has done its lookups and not yet its insert
    failed_logins   \* the failed logins observed: <<which check failed, response>>

vars == <<users, items, issued, now, resp, inflight, failed_logins>>

\* ------------------------------------------------------- credential store
hash(password) == <<"hashed", password>>

verify(password, hashed) == hashed = hash(password)

\* ---------------------------------------------------------- token service
NoToken == [kind |-> "missing"]
BadToken == [kind |-> "invalid"]

create_access_token(sub, expires_delta) ==
    [kind |-> "jwt", sub |-> sub, exp |-> now + expires_delta]

\* A token a login issued, as the client sends it back.
Bearer(t) == [kind |-> "jwt", sub |-> t.sub, exp |-> t.exp]

\* The tokens a client can present: none, a forged one, or one login issued.
PresentedTokens == {NoToken, BadToken} \cup {Bearer(t) : t \in issued}

\* Token validation that never looks at the expiry.
TokenState_no_expiry(tok) ==
    IF tok.kind # "jwt" THEN tok.kind ELSE "live"

\* What the request carries, read off the token alone.
TokenState(tok) ==
    IF tok.kind # "jwt" THEN tok.kind
    ELSE IF tok.exp <= now THEN "expired"
    ELSE "live"

\* ------------------------------------------------------ persistence layer
get_user(user_id) ==
    IF \E u \in users : u.id = user_id
    THEN CHOOSE u \in users : u.id = user_id
    ELSE NoRow

get_user_by_email(email) ==
    IF \E u \in users : u.email = email
    THEN CHOOSE u \in users : u.email = email
    ELSE NoRow

get_user_by_username(username) ==
    IF \E u \in users : u.username = username
    THEN CHOOSE u \in users : u.username = username
    ELSE NoRow

SetMax(S) == IF S = {} THEN 0 ELSE CHOOSE m \in S : \A x \in S : x <= m

\* Integer primary key of a SQLite table: one more than the largest in use.
NextUserId == SetMax({u.id : u \in users}) + 1

NextItemId == SetMax({i.id : i \in items}) + 1

\* The unique constraints of the users table.
UniqueViolation(rows) ==
    \E a, b \in rows : a # b /\ (a.email = b.email \/ a.username = b.username \/ a.id = b.id)

\* crud.create_user on a table without unique constraints.
crud_create_user_unconstrained(user) ==
    LET row == [id |-> NextUserId, email |-> user.email, username |-> user.username,
                hashed_password |-> hash(user.password)]
    IN  [ok |-> TRUE, row |-> row, users |-> users \cup {row}]

\* crud.create_user: hash the password and insert; the insert fails when the
\* table's unique constraints reject the row.
crud_create_user(user) ==
    LET row == [id |-> NextUserId, email |-> user.email, username |-> user.username,
                hashed_password |-> hash(user.password)]
    IN  IF UniqueViolation(users \cup {row})
        THEN [ok |-> FALSE, row |-> NoRow, users |-> users]
        ELSE [ok |-> TRUE, row |-> row, users |-> users \cup {row}]

\* The row after the fields a body sets are applied (an unset field keeps its value).
ApplyUserUpdate(u, user_update) ==
    [u EXCEPT !.email = IF user_update.email = None THEN @ ELSE user_update.email,
              !.username = IF user_update.username = None THEN @ ELSE user_update.username,
              !.hashed_password = IF user_update.password = None THEN @ ELSE hash(user_update.password)]

\* crud.update_user without the uniqueness re-check.
crud_update_user_nocheck(user_id, user_update) ==
    LET db_user == get_user(user_id)
    IN  IF db_user = NoRow THEN [found |-> FALSE, ok |-> FALSE, row |-> NoRow, users |-> users]
        ELSE LET row == ApplyUserUpdate(db_user, user_update)
             IN  [found |-> TRUE, ok |-> TRUE, row |-> row,
                  users |-> (users \ {db_user}) \cup {row}]

\* crud.update_user: None when the row is absent; email/username are
\* re-checked against the other users, and a clash changes nothing.
crud_update_user(user_id, user_update) ==
    LET db_user == get_user(user_id)
    IN  IF db_user = NoRow THEN [found |-> FALSE, ok |-> FALSE, row |-> NoRow, users |-> users]
        ELSE LET row == ApplyUserUpdate(db_user, user_update)
                 after == (users \ {db_user}) \cup {row}
             IN  IF UniqueViolation(after)
                 THEN [found |-> TRUE, ok |-> FALSE, row |-> db_user, users |-> users]
                 ELSE [found |-> TRUE, ok |-> TRUE, row |-> row, users |-> after]

\* crud.delete_user that takes the user's items along.
crud_delete_user_cascade(user_id) ==
    LET db_user == get_user(user_id)
    IN  IF db_user = NoRow
        THEN [found |-> FALSE, row |-> NoRow, users |-> users, items |-> items]
        ELSE [found |-> TRUE, row |-> db_user, users |-> users \ {db_user},
              items |-> {i \in items : i.owner_id # user_id}]

\* crud.delete_user: None when the row is absent, else the deleted row; the
\* items table is not touched (no cascade, no reassignment).
crud_delete_user(user_id) ==
    LET db_user == get_user(user_id)
    IN  IF db_user = NoRow
        THEN [found |-> FALSE, row |-> NoRow, users |-> users, items |-> items]
        ELSE [found |-> TRUE, row |-> db_user, users |-> users \ {db_user},
              items |-> items]

\* crud.authenticate_user: the user, or False when the username is unknown
\* or the password does not verify.
authenticate_user(username, password) ==
    LET user == get_user_by_username(username)
    IN  IF user = NoRow THEN NoRow
        ELSE IF ~verify(password, user.hashed_password) THEN NoRow
        ELSE user

\* ----------------------------------------------- authentication middleware
\* app.auth.get_current_user: the User the token's subject names, or NoRow
\* (401) when the token is missing, invalid or expired, or the subject is gone.
get_current_user(tok) ==
    IF TokenState(tok) # "live" THEN NoRow
    ELSE get_user_by_username(tok.sub)

\* ------------------------------------------------------ persistence: items
get_item(item_id) ==
    IF \E i \in items : i.id = item_id
    THEN CHOOSE i \in items : i.id = item_id
    ELSE NoRow

\* crud.create_user_item: insert an item owned by user_id.
crud_create_user_item(item, user_id) ==
    LET row == [id |-> NextItemId, owner_id |-> user_id, title |-> item.title]
    IN  [row |-> row, items |-> items \cup {row}]

\* crud.update_item: apply the fields the body sets; owner_id is no field of ItemUpdate.
crud_update_item(item_id, item_update) ==
    LET db_item == get_item(item_id)
    IN  IF db_item = NoRow THEN [row |-> NoRow, items |-> items]
        ELSE LET row == [db_item EXCEPT
                           !.title = IF item_update.title = None THEN @ ELSE item_update.title]
             IN  [row |-> row, items |-> (items \ {db_item}) \cup {row}]

\* crud.delete_item: remove the row and return it.
crud_delete_item(item_id) ==
    LET db_item == get_item(item_id)
    IN  IF db_item = NoRow THEN [row |-> NoRow, items |-> items]
        ELSE [row |-> db_item, items |-> items \ {db_item}]

\* The ids of a set of rows in ascending order.
RECURSIVE SortedIds(_)
SortedIds(S) ==
    IF S = {} THEN <<>>
    ELSE LET m == CHOOSE x \in S : \A y \in S : x <= y
         IN  <<m>> \o SortedIds(S \ {m})

\* OFFSET skip LIMIT limit that also returns the row after the last one.
Page_one_too_many(seq, skip, limit) ==
    SubSeq(seq, skip + 1, IF skip + limit + 1 < Len(seq) THEN skip + limit + 1 ELSE Len(seq))

\* OFFSET skip LIMIT limit over a sequence.
Page(seq, skip, limit) ==
    SubSeq(seq, skip + 1, IF skip + limit < Len(seq) THEN skip + limit ELSE Len(seq))

\* ilike '%search%' on the title: the search terms of the model and the titles each is part of.
Matches(search, title) ==
    \/ search = "t"
    \/ search = title

get_users(skip, limit) == Page(SortedIds({u.id : u \in users}), skip, limit)

get_items(skip, limit, search) ==
    Page(SortedIds({i.id : i \in {j \in items : search = None \/ Matches(search, j.title)}}),
         skip, limit)

get_user_items(user_id, skip, limit) ==
    Page(SortedIds({i.id : i \in {j \in items : j.owner_id = user_id}}), skip, limit)

\* ------------------------------------------------------------- responses
\* A handler's outcome: the response, and the tables as the handler leaves them.
Reply(status, detail, www, body, us, its) ==
    [status |-> status, detail |-> detail, www |-> www, body |-> body,
     users |-> us, items |-> its]

\* raise HTTPException(status_code, detail, headers): nothing is written.
HTTPException(status, detail, www) == Reply(status, detail, www, NoRow, users, items)

\* A return value serialised with the route's status code; only items.py and
\* users.py write, each to its own table.
Return(status, body, us, its) == Reply(status, None, None, body, us, its)

\* The 401 get_current_user raises, before the handler's body runs.
credentials_exception == HTTPException(401, "Could not validate credentials", "Bearer")

\* An exception no handler catches: the server's generic 500.
ServerError == HTTPException(500, "Internal Server Error", None)

\* ------------------------------------------------------------ main.login
\* login telling an unknown username from a wrong password.
login_leaky(login_data) ==
    LET user == authenticate_user(login_data.username, login_data.password)
    IN  IF user = NoRow
        THEN IF get_user_by_username(login_data.username) = NoRow
             THEN HTTPException(404, "User not found", None)
             ELSE ServerError
        ELSE Return(200,
                    [access_token |-> create_access_token(user.username,
                                                          ACCESS_TOKEN_EXPIRE_MINUTES),
                     token_type |-> "bearer"],
                    users, items)

\* main.py imports FastAPI, Depends and HTTPException from fastapi but not
\* status, so the failure branch stops at the evaluation of
\* status.HTTP_401_UNAUTHORIZED with a NameError: no HTTPException is built,
\* and the server answers with its generic 500.
login(login_data) ==
    LET user == authenticate_user(login_data.username, login_data.password)
    IN  IF user = NoRow
        THEN ServerError
        ELSE Return(200,
                    [access_token |-> create_access_token(user.username,
                                                          ACCESS_TOKEN_EXPIRE_MINUTES),
                     token_type |-> "bearer"],
                    users, items)

\* ------------------------------------------------------- routers/users.py
\* The lookups with the username looked up before the email.
create_user_lookups_username_first(user) ==
    IF get_user_by_username(user.username) # NoRow
    THEN HTTPException(400, "Username already taken", None)
    ELSE IF get_user_by_email(user.email) # NoRow
    THEN HTTPException(400, "Email already registered", None)
    ELSE NoRow

\* create_user up to its insert: the exception a lookup raises, or NoRow when both pass.
create_user_lookups(user) ==
    IF get_user_by_email(user.email) # NoRow
    THEN HTTPException(400, "Email already registered", None)
    ELSE IF get_user_by_username(user.username) # NoRow
    THEN HTTPException(400, "Username already taken", None)
    ELSE NoRow

\* create_user's last line: the insert; a constraint failure is caught by nothing.
create_user_insert(user) ==
    LET r == crud_create_user(user)
    IN  IF r.ok THEN Return(201, r.row, r.users, items) ELSE ServerError

create_user(user) ==
    LET stop == create_user_lookups(user)
    IN  IF stop # NoRow THEN stop ELSE create_user_insert(user)

read_users(skip, limit) == Return(200, get_users(skip, limit), users, items)

read_user_me(tok) ==
    LET current_user == get_current_user(tok)
    IN  IF current_user = NoRow THEN credentials_exception
        ELSE Return(200, current_user, users, items)

read_user(user_id) ==
    LET db_user == get_user(user_id)
    IN  IF db_user = NoRow THEN HTTPException(404, "User not found", None)
        ELSE Return(200, db_user, users, items)

update_user(tok, user_id, user_update) ==
    LET current_user == get_current_user(tok)
    IN  IF current_user = NoRow THEN credentials_exception
        ELSE IF current_user.id # user_id
        THEN HTTPException(403, "Not enough permissions", None)
        ELSE LET r == crud_update_user(user_id, user_update)
             IN  IF ~r.found THEN HTTPException(404, "User not found", None)
                 ELSE IF ~r.ok THEN HTTPException(400, "Conflict", None)
                 ELSE Return(200, r.row, r.users, items)

\* delete_user without the self check.
delete_user_any_caller(tok, user_id) ==
    LET current_user == get_current_user(tok)
    IN  IF current_user = NoRow THEN credentials_exception
        ELSE LET r == crud_delete_user(user_id)
             IN  IF ~r.found THEN HTTPException(404, "User not found", None)
                 ELSE Return(200, r.row, r.users, r.items)

delete_user(tok, user_id) ==
    LET current_user == get_current_user(tok)
    IN  IF current_user = NoRow THEN credentials_exception
        ELSE IF current_user.id # user_id
        THEN HTTPException(403, "Not enough permissions", None)
        ELSE LET r == crud_delete_user(user_id)
             IN  IF ~r.found THEN HTTPException(404, "User not found", None)
                 ELSE Return(200, r.row, r.users, r.items)

\* ------------------------------------------------------- routers/items.py
\* create_item's body, run with the id of the user the dependency loaded.
create_item_insert(user_id, item) ==
    LET r == crud_create_user_item(item, user_id)
    IN  Return(201, r.row, users, r.items)

\* create_item recording a fixed owner instead of the caller.
create_item_fixed_owner(tok, item) ==
    LET current_user == get_current_user(tok)
    IN  IF current_user = NoRow THEN credentials_exception
        ELSE LET r == crud_create_user_item(item, 1)
             IN  Return(201, r.row, users, r.items)

\* create_item answering a repeated body with the item it made before.
create_item_dedupe(tok, item) ==
    LET current_user == get_current_user(tok)
        Same(i) == i.owner_id = current_user.id /\ i.title = item.title
    IN  IF current_user = NoRow THEN credentials_exception
        ELSE IF \E i \in items : Same(i)
        THEN Return(201, CHOOSE i \in items : Same(i), users, items)
        ELSE create_item_insert(current_user.id, item)

create_item(tok, item) ==
    LET current_user == get_current_user(tok)
    IN  IF current_user = NoRow THEN credentials_exception
        ELSE create_item_insert(current_user.id, item)

read_items(skip, limit, search) == Return(200, get_items(skip, limit, search), users, items)

read_user_items(tok, skip, limit) ==
    LET current_user == get_current_user(tok)
    IN  IF current_user = NoRow THEN credentials_exception
        ELSE Return(200, get_user_items(current_user.id, skip, limit), users, items)

read_item(item_id) ==
    LET db_item == get_item(item_id)
    IN  IF db_item = NoRow THEN HTTPException(404, "Item not found", None)
        ELSE Return(200, db_item, users, items)

\* update_item without the ownership check.
update_item_any_caller(tok, item_id, item_update) ==
    LET current_user == get_current_user(tok)
    IN  IF current_user = NoRow THEN credentials_exception
        ELSE LET db_item == get_item(item_id)
             IN  IF db_item = NoRow THEN HTTPException(404, "Item not found", None)
                 ELSE LET r == crud_update_item(item_id, item_update)
                      IN  Return(200, r.row, users, r.items)

\* update_item with the item looked up before the caller is resolved.
update_item_lookup_first(tok, item_id, item_update) ==
    LET db_item == get_item(item_id)
        current_user == get_current_user(tok)
    IN  IF db_item = NoRow THEN HTTPException(404, "Item not found", None)
        ELSE IF current_user = NoRow THEN credentials_exception
        ELSE IF db_item.owner_id # current_user.id
        THEN HTTPException(403, "Not enough permissions", None)
        ELSE LET r == crud_update_item(item_id, item_update)
             IN  Return(200, r.row, users, r.items)

update_item(tok, item_id, item_update) ==
    LET current_user == get_current_user(tok)
    IN  IF current_user = NoRow THEN credentials_exception
        ELSE LET db_item == get_item(item_id)
             IN  IF db_item = NoRow THEN HTTPException(404, "Item not found", None)
                 ELSE IF db_item.owner_id # current_user.id
                 THEN HTTPException(403, "Not enough permissions", None)
                 ELSE LET r == crud_update_item(item_id, item_update)
                      IN  Return(200, r.row, users, r.items)

\* delete_item looking the item up among the caller's own items only.
delete_item_own_items_only(tok, item_id) ==
    LET current_user == get_current_user(tok)
    IN  IF current_user = NoRow THEN credentials_exception
        ELSE LET db_item == get_item(item_id)
             IN  IF db_item = NoRow \/ db_item.owner_id # current_user.id
                 THEN HTTPException(403, "Not enough permissions", None)
                 ELSE LET r == crud_delete_item(item_id)
                      IN  Return(200, r.row, users, r.items)

delete_item(tok, item_id) ==
    LET current_user == get_current_user(tok)
    IN  IF current_user = NoRow THEN credentials_exception
        ELSE LET db_item == get_item(item_id)
             IN  IF db_item = NoRow THEN HTTPException(404, "Item not found", None)
                 ELSE IF db_item.owner_id # current_user.id
                 THEN HTTPException(403, "Not enough permissions", None)
                 ELSE LET r == crud_delete_item(item_id)
                      IN  Return(200, r.row, users, r.items)

\* ------------------------------------------------------------------ inputs
UserCreates == [email : Emails, username : Usernames, password : Passwords]

UserUpdates ==
    [email : Emails \cup {None}, username : Usernames \cup {None}, password : Passwords \cup {None}]

LoginRequests == [username : Usernames, password : Passwords]

ItemCreates == [title : Titles]

ItemUpdates == [title : Titles \cup {None}]

Searches == {None, "t", "t1"}

\* Path ids: every id a row can have (each is the id of no row in some reachable state).
UserIdInputs == 1..MaxUserId

ItemIdInputs == 1..MaxItemId

Pages == 0..MaxPage

\* ----------------------------------------------------------------- requests
\* One request served: the tables become what the handler left, and the
\* response is recorded with the state of the token the request carried
\* ("none" on a public route, which reads no token) and the path id.
Serve(op, r, auth, target) ==
    /\ users' = r.users
    /\ items' = r.items
    /\ resp' = [op |-> op, status |-> r.status, detail |-> r.detail, auth |-> auth,
                target |-> target]
    /\ UNCHANGED <<now, inflight>>

\* The token a successful login returned, as the client holds it, with the
\* id of the user it was issued to and the time of the login.
Grant(login_data, r) ==
    [sub |-> r.body.access_token.sub, exp |-> r.body.access_token.exp,
     uid |-> get_user_by_username(login_data.username).id, iat |-> now]

\* POST /auth/login while the clients hold at most `held` tokens.
LoginWithin(login_data, held) ==
    LET r == login(login_data)
    IN  /\ r.status = 200 =>
              (Grant(login_data, r) \in issued \/ Cardinality(issued) < held)
        /\ issued' = IF r.status = 200 THEN issued \cup {Grant(login_data, r)} ELSE issued
        /\ Serve("login", r, "none", 0)

LoginStep(login_data) == LoginWithin(login_data, MaxTokens)

POST_auth_login(login_data) == LoginStep(login_data) /\ UNCHANGED failed_logins

POST_users(user) ==
    LET r == create_user(user)
    IN  /\ r.status = 201 => r.body.id <= MaxUserId
        /\ Serve("create_user", r, "none", 0)
        /\ UNCHANGED <<issued, failed_logins>>

GET_users(skip, limit) ==
    Serve("read_users", read_users(skip, limit), "none", 0) /\ UNCHANGED <<issued, failed_logins>>

GET_users_me(tok) ==
    Serve("read_user_me", read_user_me(tok), TokenState(tok), 0)
    /\ UNCHANGED <<issued, failed_logins>>

GET_users_id(user_id) ==
    Serve("read_user", read_user(user_id), "none", 0) /\ UNCHANGED <<issued, failed_logins>>

PUT_users_id(tok, user_id, user_update) ==
    Serve("update_user", update_user(tok, user_id, user_update), TokenState(tok), user_id)
    /\ UNCHANGED <<issued, failed_logins>>

DELETE_users_id(tok, user_id) ==
    Serve("delete_user", delete_user(tok, user_id), TokenState(tok), user_id)
    /\ UNCHANGED <<issued, failed_logins>>

\* POST /items/ while the item ids stay within `cap`.
CreateItemWithin(tok, item, cap) ==
    LET r == create_item(tok, item)
    IN  /\ r.status = 201 => r.body.id <= cap
        /\ Serve("create_item", r, TokenState(tok), 0)
        /\ UNCHANGED <<issued, failed_logins>>

POST_items(tok, item) == CreateItemWithin(tok, item, MaxItemId)

GET_items(skip, limit, search) ==
    Serve("read_items", read_items(skip, limit, search), "none", 0)
    /\ UNCHANGED <<issued, failed_logins>>

GET_items_my_items(tok, skip, limit) ==
    Serve("read_user_items", read_user_items(tok, skip, limit), TokenState(tok), 0)
    /\ UNCHANGED <<issued, failed_logins>>

GET_items_id(item_id) ==
    Serve("read_item", read_item(item_id), "none", 0) /\ UNCHANGED <<issued, failed_logins>>

PUT_items_id(tok, item_id, item_update) ==
    Serve("update_item", update_item(tok, item_id, item_update), TokenState(tok), item_id)
    /\ UNCHANGED <<issued, failed_logins>>

DELETE_items_id(tok, item_id) ==
    Serve("delete_item", delete_item(tok, item_id), TokenState(tok), item_id)
    /\ UNCHANGED <<issued, failed_logins>>

\* ------------------------------------------------------------------ clock
Tick ==
    /\ now < MaxTime
    /\ now' = now + 1
    /\ UNCHANGED <<users, items, issued, resp, inflight, failed_logins>>

\* A client drops a token it holds (the server keeps no record of tokens).
Discard ==
    /\ \E t \in issued : issued' = issued \ {t}
    /\ UNCHANGED <<users, items, now, resp, inflight, failed_logins>>

Workers == {"w1", "w2"}

Idle == [stage |-> "idle"]

Init ==
    /\ users = {}
    /\ items = {}
    /\ issued = {}
    /\ now = 0
    /\ resp = [op |-> "start", status |-> 0, detail |-> None, auth |-> "none", target |-> 0]
    /\ inflight = [w \in Workers |-> Idle]
    /\ failed_logins = {}

Next ==
    \/ \E login_data \in LoginRequests : POST_auth_login(login_data)
    \/ \E user \in UserCreates : POST_users(user)
    \/ \E skip \in Pages, limit \in Pages : GET_users(skip, limit)
    \/ \E tok \in PresentedTokens : GET_users_me(tok)
    \/ \E id \in UserIdInputs : GET_users_id(id)
    \/ \E tok \in PresentedTokens, id \in UserIdInputs, upd \in UserUpdates :
          PUT_users_id(tok, id, upd)
    \/ \E tok \in PresentedTokens, id \in UserIdInputs : DELETE_users_id(tok, id)
    \/ \E tok \in PresentedTokens, item \in ItemCreates : POST_items(tok, item)
    \/ \E skip \in Pages, limit \in Pages, search \in Searches : GET_items(skip, limit, search)
    \/ \E tok \in PresentedTokens, skip \in Pages, limit \in Pages :
          GET_items_my_items(tok, skip, limit)
    \/ \E id \in ItemIdInputs : GET_items_id(id)
    \/ \E tok \in PresentedTokens, id \in ItemIdInputs, upd \in ItemUpdates :
          PUT_items_id(tok, id, upd)
    \/ \E tok \in PresentedTokens, id \in ItemIdInputs : DELETE_items_id(tok, id)
    \/ Tick
    \/ Discard

Spec == Init /\ [][Next]_vars

\* ------------------------------------------------- logins under observation
\* Which check of authenticate_user a username/password pair fails, read off the table.
LoginFailure(login_data) ==
    IF ~\E u \in users : u.username = login_data.username THEN "no_user"
    ELSE IF ~\E u \in users : /\ u.username = login_data.username
                              /\ verify(login_data.password, u.hashed_password)
    THEN "bad_password"
    ELSE "none"

\* A login whose response, when the pair fails, is added to the failures observed.
ObservedLogin(login_data) ==
    LET r == login(login_data)
    IN  /\ LoginStep(login_data)
        /\ failed_logins' =
              IF LoginFailure(login_data) = "none" THEN failed_logins
              ELSE failed_logins \cup
                   {[why |-> LoginFailure(login_data),
                     response |-> [status |-> r.status, detail |-> r.detail, www |-> r.www,
                                   body |-> r.body]]}

LoginNext ==
    \/ \E login_data \in LoginRequests : ObservedLogin(login_data)
    \/ \E user \in UserCreates : POST_users(user)
    \/ \E tok \in PresentedTokens, id \in UserIdInputs, upd \in UserUpdates :
          PUT_users_id(tok, id, upd)
    \/ \E tok \in PresentedTokens, id \in UserIdInputs : DELETE_users_id(tok, id)
    \/ Tick
    \/ Discard

LoginSpec == Init /\ [][LoginNext]_vars

\* --------------------------------------------- concurrent POST /users/
\* Two workers serve POST /users/ with the lookups and the insert as
\* separate steps; logins and deletions of users run between them.
RegisterLookup(w, user) ==
    LET stop == create_user_lookups(user)
    IN  /\ inflight[w] = Idle
        /\ IF stop # NoRow
           THEN /\ resp' = [op |-> "create_user", status |-> stop.status,
                            detail |-> stop.detail, auth |-> "none", target |-> 0]
                /\ UNCHANGED inflight
           ELSE /\ inflight' = [inflight EXCEPT ![w] = [stage |-> "insert", user |-> user]]
                /\ UNCHANGED resp
        /\ UNCHANGED <<users, items, issued, now, failed_logins>>

RegisterInsert(w) ==
    /\ inflight[w] # Idle
    /\ LET r == create_user_insert(inflight[w].user)
       IN  /\ r.status = 201 => r.body.id <= MaxUserId
           /\ users' = r.users
           /\ resp' = [op |-> "create_user", status |-> r.status, detail |-> r.detail,
                       auth |-> "none", target |-> 0]
    /\ inflight' = [inflight EXCEPT ![w] = Idle]
    /\ UNCHANGED <<items, issued, now, failed_logins>>

ConcNext ==
    \/ \E w \in Workers, user \in UserCreates : RegisterLookup(w, user)
    \/ \E w \in Workers : RegisterInsert(w)
    \/ \E login_data \in LoginRequests : POST_auth_login(login_data)
    \/ \E tok \in PresentedTokens, id \in UserIdInputs : DELETE_users_id(tok, id)
    \/ Discard

ConcSpec == Init /\ [][ConcNext]_vars

\* A worker serves POST /items/ in two steps, as the framework runs it: the
\* get_current_user dependency first, the handler's insert afterwards, with
\* the id of the user the dependency loaded; registrations, logins and
\* deletions of users run between the two.
CreateItemResolve(w, tok, item) ==
    LET current_user == get_current_user(tok)
    IN  /\ inflight[w] = Idle
        /\ IF current_user = NoRow
           THEN /\ resp' = [op |-> "create_item", status |-> credentials_exception.status,
                            detail |-> credentials_exception.detail,
                            auth |-> TokenState(tok), target |-> 0]
                /\ UNCHANGED inflight
           ELSE /\ inflight' = [inflight EXCEPT ![w] = [stage |-> "create_item",
                                                         user_id |-> current_user.id,
                                                         item |-> item]]
                /\ UNCHANGED resp
        /\ UNCHANGED <<users, items, issued, now, failed_logins>>

CreateItemInsert(w) ==
    /\ inflight[w] # Idle
    /\ LET r == create_item_insert(inflight[w].user_id, inflight[w].item)
       IN  /\ r.body.id <= MaxItemId
           /\ items' = r.items
           /\ resp' = [op |-> "create_item", status |-> r.status, detail |-> r.detail,
                       auth |-> "live", target |-> r.body.id]
    /\ inflight' = [inflight EXCEPT ![w] = Idle]
    /\ UNCHANGED <<users, issued, now, failed_logins>>

ItemRaceNext ==
    \/ \E w \in Workers, tok \in PresentedTokens, item \in ItemCreates :
          CreateItemResolve(w, tok, item)
    \/ \E w \in Workers : CreateItemInsert(w)
    \/ \E user \in UserCreates : POST_users(user)
    \/ \E login_data \in LoginRequests : POST_auth_login(login_data)
    \/ \E tok \in PresentedTokens, id \in UserIdInputs : DELETE_users_id(tok, id)
    \/ Discard

ItemRaceSpec == Init /\ [][ItemRaceNext]_vars

\* The account routes alone, with up to MaxSessions tokens in clients' hands
\* at once: registrations, logins, renames and deletions, and GET /users/me
\* as the protected request a token is tried on.
SessionLogin(login_data) == LoginWithin(login_data, MaxSessions) /\ UNCHANGED failed_logins

SessionNext ==
    \/ \E login_data \in LoginRequests : SessionLogin(login_data)
    \/ \E user \in UserCreates : POST_users(user)
    \/ \E tok \in PresentedTokens : GET_users_me(tok)
    \/ \E tok \in PresentedTokens, id \in UserIdInputs, upd \in UserUpdates :
          PUT_users_id(tok, id, upd)
    \/ \E tok \in PresentedTokens, id \in UserIdInputs : DELETE_users_id(tok, id)
    \/ Discard

SessionSpec == Init /\ [][SessionNext]_vars

\* The catalogue: up to MaxCatalogItems items made and removed by two
\* accounts that come and go, and the two listings read with every skip and
\* limit up to MaxCatalogPage.
CatalogIds == 1..MaxCatalogItems

CatalogAccounts ==
    {[email |-> "e1", username |-> "u1", password |-> "p1"],
     [email |-> "e2", username |-> "u2", password |-> "p1"]}

CatalogItemCreates == [title : {"t1"}]

CatalogPages == 0..MaxCatalogPage

CatalogCreate(tok, item) == CreateItemWithin(tok, item, MaxCatalogItems)

CatalogNext ==
    \/ \E user \in CatalogAccounts : POST_users(user)
    \/ \E user \in CatalogAccounts :
          POST_auth_login([username |-> user.username, password |-> user.password])
    \/ \E tok \in PresentedTokens, id \in UserIdInputs : DELETE_users_id(tok, id)
    \/ \E tok \in PresentedTokens, item \in CatalogItemCreates : CatalogCreate(tok, item)
    \/ \E tok \in PresentedTokens, id \in CatalogIds : DELETE_items_id(tok, id)
    \/ \E skip \in CatalogPages, limit \in CatalogPages : GET_items(skip, limit, None)
    \/ \E skip \in CatalogPages, limit \in CatalogPages : GET_users(skip, limit)
    \/ Discard

CatalogSpec == Init /\ [][CatalogNext]_vars

\* ================================================================== claims
\* The caller a token authenticates, as the handlers see it.
Authenticated(tok) == get_current_user(tok) # NoRow

\* C1: on an existing item, PUT and DELETE /items/{id} succeed or write only
\* for the caller whose id is the item's owner_id; every other authenticated
\* caller gets 403 and both tables stay as they were.
C1_ItemMutationOwnerOnly ==
    \A tok \in PresentedTokens, i \in items, upd \in ItemUpdates :
        LET cu == get_current_user(tok)
            ru == update_item(tok, i.id, upd)
            rd == delete_item(tok, i.id)
            owner == cu # NoRow /\ cu.id = i.owner_id
        IN  /\ (ru.status = 200 \/ ru.items # items) => owner
            /\ (rd.status = 200 \/ rd.items # items) => owner
            /\ (cu # NoRow /\ ~owner) =>
                  /\ ru.status = 403 /\ ru.items = items /\ ru.users = users
                  /\ rd.status = 403 /\ rd.items = items /\ rd.users = users

\* C1 witness: an authenticated non-owner was refused on an item that exists.
C1_Witness ==
    /\ resp.op \in {"update_item", "delete_item"}
    /\ resp.status = 403
    /\ \E i \in items : i.id = resp.target

\* C2 (as claimed): PUT and DELETE /users/{id} by an authenticated caller on
\* an id no user has answer 404, whatever the caller's id.
C2_MissingUserIsNotFound ==
    \A tok \in PresentedTokens, id \in UserIdInputs, upd \in UserUpdates :
        (Authenticated(tok) /\ ~\E u \in users : u.id = id) =>
            /\ update_user(tok, id, upd).status = 404
            /\ delete_user(tok, id).status = 404

\* C2 witness: a request on a missing user was answered 403.
C2_Witness ==
    /\ resp.op \in {"update_user", "delete_user"}
    /\ resp.status = 403
    /\ ~\E u \in users : u.id = resp.target

\* C3: PUT and DELETE /items/{id} by an authenticated caller answer 404 when
\* no item has the id (never 403), and 403 when the item exists and the
\* caller is not its owner.
C3_ItemExistenceBeforeOwnership ==
    \A tok \in PresentedTokens, id \in ItemIdInputs, upd \in ItemUpdates :
        Authenticated(tok) =>
            LET ru == update_item(tok, id, upd).status
                rd == delete_item(tok, id).status
            IN  IF ~\E i \in items : i.id = id
                THEN ru = 404 /\ rd = 404
                ELSE (get_item(id).owner_id # get_current_user(tok).id) => (ru = 403 /\ rd = 403)

\* C3 witness: an authenticated caller asked for an item that does not exist.
C3_Witness ==
    /\ resp.op \in {"update_item", "delete_item"}
    /\ resp.status = 404
    /\ resp.auth = "live"

\* C4: PUT and DELETE /users/{id} write to the users table only for the
\* caller whose id is id; an authenticated caller with another id, on a
\* user that exists, gets 403 and the table stays as it was.
C4_UserMutationSelfOnly ==
    \A tok \in PresentedTokens, id \in UserIdInputs, upd \in UserUpdates :
        LET cu == get_current_user(tok)
            ru == update_user(tok, id, upd)
            rd == delete_user(tok, id)
            self == cu # NoRow /\ cu.id = id
        IN  /\ (ru.users # users \/ rd.users # users) => self
            /\ (cu # NoRow /\ ~self /\ \E u \in users : u.id = id) =>
                  /\ ru.status = 403 /\ ru.users = users
                  /\ rd.status = 403 /\ rd.users = users

\* C4 witness: an authenticated caller was refused on another, existing user.
C4_Witness ==
    /\ resp.op \in {"update_user", "delete_user"}
    /\ resp.status = 403
    /\ \E u \in users : u.id = resp.target

\* C5: no two distinct users share an email, and no two share a username.
C5_UniqueEmailAndUsername ==
    \A a, b \in users : a # b => (a.email # b.email /\ a.username # b.username)

\* C5 witness: with two users registered, a self-update asking for an email
\* or username of the other one was turned down.
C5_Witness ==
    /\ resp.op = "update_user"
    /\ resp.status = 400
    /\ Cardinality(users) = 2

\* C6: with the lookups and the insert of POST /users/ interleaved between
\* two workers, no email and no username is ever held by two users, and an
\* insert that would repeat one fails and leaves the table as it was.
C6_RacingRegistrationsStayUnique ==
    /\ \A e \in Emails : Cardinality({u \in users : u.email = e}) <= 1
    /\ \A n \in Usernames : Cardinality({u \in users : u.username = n}) <= 1
    /\ \A w \in Workers :
          (/\ inflight[w] # Idle
           /\ \E u \in users : \/ u.email = inflight[w].user.email
                               \/ u.username = inflight[w].user.username) =>
              LET r == create_user_insert(inflight[w].user)
              IN  r.status # 201 /\ r.users = users

\* C6 witness: both workers passed the lookups for the same email, one
\* insert went through, and the other one failed at the insert.
C6_Witness ==
    /\ resp.op = "create_user"
    /\ resp.status = 500
    /\ users # {}

\* C7: POST /users/ answers 400 and creates nothing when the email is held
\* (the email conflict also when the username is held too), 400 and creates
\* nothing when only the username is held, and creates exactly one user
\* with the request's email and username otherwise.
C7_RegistrationConflicts ==
    \A user \in UserCreates :
        LET r == create_user(user)
            emailHeld == \E u \in users : u.email = user.email
            usernameHeld == \E u \in users : u.username = user.username
        IN  IF emailHeld
            THEN r.status = 400 /\ r.detail = "Email already registered" /\ r.users = users
            ELSE IF usernameHeld
            THEN r.status = 400 /\ r.detail = "Username already taken" /\ r.users = users
            ELSE /\ r.status = 201
                 /\ users \subseteq r.users
                 /\ Cardinality(r.users \ users) = 1
                 /\ \A u \in r.users \ users :
                       u.email = user.email /\ u.username = user.username

\* C7 witness: a registration met both its email and its username taken (two
\* users hold every email and username there is) and was told of the email.
C7_Witness ==
    /\ resp.op = "create_user"
    /\ resp.status = 400
    /\ resp.detail = "Email already registered"
    /\ Cardinality(users) = 2

\* C8 (as claimed): login answers 200 with a bearer token for a pair that
\* authenticates, and 401 with a Bearer challenge and no token for any other.
C8_LoginTwoOutcomes ==
    \A login_data \in LoginRequests :
        LET r == login(login_data)
        IN  IF LoginFailure(login_data) = "none"
            THEN r.status = 200 /\ r.body.token_type = "bearer"
            ELSE r.status = 401 /\ r.www = "Bearer" /\ r.body = NoRow

\* C8 witness: a login was answered with a server error.
C8_Witness ==
    /\ resp.op = "login"
    /\ resp.status = 500

\* C9: all failed logins observed, whichever check failed and whatever the
\* table held, were answered with the same response.
C9_FailedLoginsAlike ==
    \A f, g \in failed_logins : f.response = g.response

\* C9 witness: a login failed on an unknown username and another one on a
\* wrong password.
C9_Witness ==
    \E f, g \in failed_logins : f.why = "no_user" /\ g.why = "bad_password"

\* C10: with a missing, invalid or expired token every protected operation
\* answers 401 and leaves both tables as they were, whether or not its
\* target exists; registration, the listings and the reads by id, which
\* read no token, never answer 401, and a login with a pair that
\* authenticates succeeds without one.
C10_ProtectedRoutesNeedToken ==
    LET Rejected(r) == r.status = 401 /\ r.users = users /\ r.items = items
        Open(r) == r.status # 401
    IN  /\ \A tok \in PresentedTokens :
              TokenState(tok) # "live" =>
                  /\ \A item \in ItemCreates : Rejected(create_item(tok, item))
                  /\ \A skip \in Pages, limit \in Pages :
                        Rejected(read_user_items(tok, skip, limit))
                  /\ \A id \in ItemIdInputs, upd \in ItemUpdates :
                        Rejected(update_item(tok, id, upd))
                  /\ \A id \in ItemIdInputs : Rejected(delete_item(tok, id))
                  /\ Rejected(read_user_me(tok))
                  /\ \A id \in UserIdInputs, upd \in UserUpdates :
                        Rejected(update_user(tok, id, upd))
                  /\ \A id \in UserIdInputs : Rejected(delete_user(tok, id))
        /\ \A user \in UserCreates : Open(create_user(user))
        /\ \A skip \in Pages, limit \in Pages : Open(read_users(skip, limit))
        /\ \A id \in UserIdInputs : Open(read_user(id))
        /\ \A skip \in Pages, limit \in Pages, search \in Searches :
              Open(read_items(skip, limit, search))
        /\ \A id \in ItemIdInputs : Open(read_item(id))
        /\ \A login_data \in LoginRequests :
              LoginFailure(login_data) = "none" => login(login_data).status = 200

\* C10 witness: an expired token was turned down on an item that exists.
C10_Witness ==
    /\ resp.op \in {"update_item", "delete_item"}
    /\ resp.status = 401
    /\ resp.auth = "expired"
    /\ \E i \in items : i.id = resp.target

\* C11: the item POST /items/ creates carries the caller's id as owner_id,
\* and no PUT /items/{id}, by any caller with any body, adds or removes an
\* item or changes the owner_id of one: from every reachable state each
\* item leaves an update with the owner_id it entered it with, so an item
\* keeps the owner_id of its creation for as long as it exists.
C11_OwnerIdNeverChanges ==
    /\ \A tok \in PresentedTokens, item \in ItemCreates :
          LET r == create_item(tok, item)
          IN  r.status = 201 =>
                  /\ r.body \in r.items
                  /\ r.body.owner_id = get_current_user(tok).id
    /\ \A tok \in PresentedTokens, id \in ItemIdInputs, upd \in ItemUpdates :
          LET r == update_item(tok, id, upd)
          IN  /\ {j.id : j \in r.items} = {i.id : i \in items}
              /\ \A i \in items, j \in r.items : j.id = i.id => j.owner_id = i.owner_id

\* C11 witness: the second user owns an item and an update of it succeeded.
C11_Witness ==
    /\ resp.op = "update_item"
    /\ resp.status = 200
    /\ \E i \in items : i.id = resp.target /\ i.owner_id = 2

\* C12 (as claimed): whenever POST /items/ has inserted an item, a user whose
\* id is the new item's owner_id is in the store at that moment, also when
\* the creator is deleted between the resolution of the token and the insert.
C12_OwnerExistsAtInsertion ==
    (resp.op = "create_item" /\ resp.status = 201) =>
        \E i \in items : i.id = resp.target /\ \E u \in users : u.id = i.owner_id

\* C12 witness: an insert went through for a creator deleted in between.
C12_Witness ==
    /\ resp.op = "create_item"
    /\ resp.status = 201
    /\ \E i \in items : i.id = resp.target /\ \A u \in users : u.id # i.owner_id

\* The statuses the protected operations, on every input, answer a request
\* that carries tok with.
ProtectedStatuses(tok) ==
    {create_item(tok, item).status : item \in ItemCreates}
    \cup {read_user_items(tok, skip, limit).status : skip \in Pages, limit \in Pages}
    \cup {update_item(tok, id, upd).status : id \in ItemIdInputs, upd \in ItemUpdates}
    \cup {delete_item(tok, id).status : id \in ItemIdInputs}
    \cup {read_user_me(tok).status}
    \cup {update_user(tok, id, upd).status : id \in UserIdInputs, upd \in UserUpdates}
    \cup {delete_user(tok, id).status : id \in UserIdInputs}

\* C13 (as claimed): once no user has the id of the user a token was issued
\* to, every protected request that presents the token answers 401, whatever
\* registrations and updates came in between.
C13_TokenOfDeletedUserRefused ==
    \A t \in issued :
        (\A u \in users : u.id # t.uid) =>
            ProtectedStatuses(Bearer(t)) = {401}

\* C13 witness: GET /users/me succeeded while every token in a client's hands
\* was issued to a user that is gone.
C13_Witness ==
    /\ resp.op = "read_user_me"
    /\ resp.status = 200
    /\ issued # {}
    /\ \A t \in issued : \A u \in users : u.id # t.uid

C15_PasswordChangeTakesEffect ==
    [][/\ \A u \in users, v \in users' :
             (/\ resp'.op = "update_user" /\ resp'.status = 200
              /\ v.id = u.id /\ v.hashed_password # u.hashed_password) =>
                 \A p \in Passwords :
                     /\ v.hashed_password = hash(p) =>
                            (login([username |-> v.username, password |-> p]).status = 200)'
                     /\ u.hashed_password = hash(p) =>
                            (login([username |-> v.username, password |-> p]).status = 401)'
       /\ \A tok \in PresentedTokens, id \in UserIdInputs, upd \in UserUpdates :
             LET r == update_user(tok, id, upd)
             IN  (r.status = 200 /\ upd.password = None) =>
                     \A u \in users, v \in r.users :
                         v.id = u.id => v.hashed_password = u.hashed_password
      ]_vars

\* C16: a POST /items/ that answers 201 adds exactly one item to the store:
\* a row that was not there, under an id no item had, owned by the caller and
\* carrying the body's title; every item that was there and every user stay
\* as they were. A body the caller sent before therefore makes one more item.
C16_CreateAddsOneItem ==
    \A tok \in PresentedTokens, item \in ItemCreates :
        LET r == create_item(tok, item)
        IN  r.status = 201 =>
                /\ r.body \notin items
                /\ r.items = items \cup {r.body}
                /\ Cardinality(r.items) = Cardinality(items) + 1
                /\ \A i \in items : i.id # r.body.id
                /\ r.body.owner_id = get_current_user(tok).id
                /\ r.body.title = item.title
                /\ r.users = users

\* C16 witness: the same caller's repeated body stands in the store as two
\* items with different ids.
C16_Witness ==
    /\ resp.op = "create_item"
    /\ resp.status = 201
    /\ \E i, j \in items :
          i.id # j.id /\ i.owner_id = j.owner_id /\ i.title = j.title

\* The sequence s holds the ids at positions skip+1 .. skip+limit of the
\* ascending order of ids: as many as that range has, the k-th of them
\* with exactly skip+k-1 smaller ids in the table.
IsPageOf(s, ids, skip, limit) ==
    LET rest == IF Cardinality(ids) > skip THEN Cardinality(ids) - skip ELSE 0
    IN  /\ Len(s) = IF limit < rest THEN limit ELSE rest
        /\ \A k \in 1..Len(s) :
              /\ s[k] \in ids
              /\ Cardinality({x \in ids : x < s[k]}) = skip + k - 1

\* C17: for every skip and limit from 0 up, GET /items/ without a search
\* term and GET /users/ answer 200 with the records at positions skip+1 ..
\* skip+limit of the table in ascending id order: at most limit of them,
\* none of the first skip, ascending, and none when skip reaches the
\* number of records; the tables are left as they were.
C17_ListingsPageByAscendingId ==
    \A skip \in CatalogPages, limit \in CatalogPages :
        LET ri == read_items(skip, limit, None)
            ru == read_users(skip, limit)
        IN  /\ ri.status = 200 /\ ri.users = users /\ ri.items = items
            /\ IsPageOf(ri.body, {i.id : i \in items}, skip, limit)
            /\ Len(ri.body) <= limit
            /\ \A k \in 1..Len(ri.body) - 1 : ri.body[k] < ri.body[k + 1]
            /\ skip >= Cardinality(items) => ri.body = <<>>
            /\ ru.status = 200 /\ ru.users = users /\ ru.items = items
            /\ IsPageOf(ru.body, {u.id : u \in users}, skip, limit)
            /\ Len(ru.body) <= limit
            /\ \A k \in 1..Len(ru.body) - 1 : ru.body[k] < ru.body[k + 1]
            /\ skip >= Cardinality(users) => ru.body = <<>>

\* C17 witness: the items were listed while the table held MaxCatalogItems
\* items and the user table had lost its first row.
C17_Witness ==
    /\ resp.op = "read_items"
    /\ resp.status = 200
    /\ Cardinality(items) = MaxCatalogItems
    /\ users # {}
    /\ \A u \in users : u.id # 1

\* C18: a DELETE /users/{id} that answers 200 removes the row of that user
\* and nothing else: every item stays as it was, those the deleted user
\* owns included, with an owner_id that no user carries any more; and in
\* every reachable state GET /items/{id} answers 200 with the row of every
\* item in the store, whether or not its owner exists.
C18_DeleteUserLeavesItems ==
    /\ \A tok \in PresentedTokens, id \in UserIdInputs :
          LET r == delete_user(tok, id)
          IN  r.status = 200 =>
                  /\ get_user(id) \in users
                  /\ r.users = users \ {get_user(id)}
                  /\ r.items = items
                  /\ \A i \in r.items :
                        i.owner_id = id => \A u \in r.users : u.id # i.owner_id
    /\ \A i \in items :
          LET r == read_item(i.id)
          IN  r.status = 200 /\ r.body = i

\* C18 witness: a user was deleted and an item it owned is still in the
\* store, owned by no user.
C18_Witness ==
    /\ resp.op = "delete_user"
    /\ resp.status = 200
    /\ \E i \in items : i.owner_id = resp.target /\ \A u \in users : u.id # i.owner_id

\* C19 (as claimed): an unexpired token that login issued to the user with
\* id i resolves to the user with id i or to nobody (401), also after
\* renames, deletions and registrations that take up its username again.
C19_TokenKeepsItsUser ==
    \A t \in issued :
        TokenState(Bearer(t)) = "live" =>
            LET current_user == get_current_user(Bearer(t))
            IN  current_user = NoRow \/ current_user.id = t.uid

\* C19 witness: GET /users/me succeeded while every token in a client's hands
\* resolved to a user with another id than the one it was issued to.
C19_Witness ==
    /\ resp.op = "read_user_me"
    /\ resp.status = 200
    /\ issued # {}
    /\ \A t \in issued :
          LET current_user == get_current_user(Bearer(t))
          IN  current_user # NoRow /\ current_user.id # t.uid
====
